---- MODULE Spec2Model ----
(***************************************************************************)
(* A model of src/dashboard.py, the Streamlit sales dashboard.             *)
(*                                                                         *)
(* The script is executed top to bottom on every run of the page; a user   *)
(* interaction re-runs it.  The only state that survives a run is the       *)
(* st.cache_data store of load_data.  One run is:                          *)
(*     load -> sidebar widgets -> filter -> metrics -> charts -> table     *)
(* Global_Sales is modelled in exact integer units (the floating point     *)
(* rounding of pandas sums is outside the model).                          *)
(***************************************************************************)
EXTENDS Integers, Sequences, FiniteSets

\* The longest CSV the model fetches, in data rows.
MaxRows == 2

\* ------------------------------------------------------------------ data

\* The cell read_csv turns into NaN (an empty field, "N/A", ...).
NA == ""

Genres == {"Action", "Sports"}
Platforms == {"GB", "PS2"}
Publishers == {NA, "EA"}
\* The text of a Year cell: missing, integral, fractional, not a number.
YearCells == {NA, "2005", "2007", "2007.5", "abc"}
SalesValues == {1, 2}

\* The multiselect's default platforms (the source lists five of them; the
\* model's platform universe has two, one of them a default).
DefaultPlatforms == {"PS2"}

\* The argument of the one call of load_data.
URL == "vgsales.csv"

\* Lexicographic order of the category names, as Python compares str.
KeyOrder == <<"Action", "GB", "PS2", "Sports">>

StrRank(k) == CHOOSE i \in 1..Len(KeyOrder) : KeyOrder[i] = k

IntRank(k) == k

IsNumericCell(c) == c \in {"2005", "2007", "2007.5"}

\* int("2005") succeeds; int("2007.5") and int("abc") raise ValueError.
IsIntLiteral(c) == c \in {"2005", "2007"}

\* The integer astype(int) yields: int(str) of an integer literal, and the
\* truncation toward zero of a float.
YearValue == [c \in {"2005", "2007", "2007.5"} |->
                 IF c = "2005" THEN 2005 ELSE 2007]

WellFormed(r) == r.Publisher # NA /\ IsIntLiteral(r.Year)

\* The rows a CSV may hold.  Rows with a defect in Publisher or Year vary
\* only in those two cells.
CsvRows ==
    {r \in [Genre : Genres, Platform : Platforms, Publisher : Publishers,
            Year : YearCells, Global_Sales : SalesValues] :
        \/ WellFormed(r)
        \/ r.Genre = "Action" /\ r.Platform = "PS2" /\ r.Global_Sales = 1}

CsvFiles == UNION {[1..n -> CsvRows] : n \in 0..MaxRows}

\* ------------------------------------------------- load_data (lines 10-17)

\* pd.read_csv: one frame row per CSV row, labelled by a RangeIndex from 0.
\* Empty cells are NaN (NA); the other cells keep their text until the
\* column's dtype is decided.
read_csv(csv) ==
    [i \in 1..Len(csv) |->
        [row |-> i - 1, Genre |-> csv[i].Genre, Platform |-> csv[i].Platform,
         Publisher |-> csv[i].Publisher, Year |-> csv[i].Year,
         Global_Sales |-> csv[i].Global_Sales]]

\* The Year column is numeric when every cell that is present parses as a
\* number, and of dtype object (the cells stay str) as soon as one does not.
YearIsObject(csv) ==
    \E i \in 1..Len(csv) : csv[i].Year # NA /\ ~IsNumericCell(csv[i].Year)

dropnaYearOnly(frame) ==
    SelectSeq(frame, LAMBDA r : r.Year # NA)

\* df.dropna(subset=['Year', 'Publisher'], inplace=True)
dropna(frame) ==
    SelectSeq(frame, LAMBDA r : r.Year # NA /\ r.Publisher # NA)

\* df['Year'].astype(int) raises ValueError on an object column holding a
\* str that is no integer literal; a numeric column never raises.
astypeRaises(frame, object) ==
    object /\ \E i \in 1..Len(frame) : ~IsIntLiteral(frame[i].Year)

\* df['Year'] = df['Year'].astype(int)
astype_int(frame) ==
    [i \in 1..Len(frame) |-> [frame[i] EXCEPT !.Year = YearValue[@]]]

\* Whether the body of load_data raises after a successful fetch.
load_data_raises(csv) == astypeRaises(dropna(read_csv(csv)), YearIsObject(csv))

\* The DataFrame the body of load_data returns when it does not raise.
load_data(csv) == astype_int(dropna(read_csv(csv)))

\* ------------------------------------------------------ pandas operations

SetMin(S) == CHOOSE x \in S : \A y \in S : x <= y

SetMax(S) == CHOOSE x \in S : \A y \in S : y <= x

\* Series.unique() of column col, as a set.
unique(frame, col) == {frame[i][col] : i \in 1..Len(frame)}

\* The order of the values of column col: Year is int, the others are str.
Rank(col, k) == IF col = "Year" THEN IntRank(k) ELSE StrRank(k)

isinAllWhenEmpty(v, selected) == selected = {} \/ v \in selected

\* Series.isin(values)
isin(v, selected) == v \in selected

RowMaskYearExclusive(r, genres, platforms, range) ==
    /\ isin(r.Genre, genres)
    /\ isin(r.Platform, platforms)
    /\ r.Year >= range[1]
    /\ r.Year < range[2]

\* The boolean mask of lines 61-64, for one row.
RowMask(r, genres, platforms, range) ==
    /\ isin(r.Genre, genres)
    /\ isin(r.Platform, platforms)
    /\ r.Year >= range[1]
    /\ r.Year <= range[2]

\* df[mask]: the rows whose mask is True, index labels and order kept.
BooleanIndex(frame, genres, platforms, range) ==
    SelectSeq(frame, LAMBDA r : RowMask(r, genres, platforms, range))

RECURSIVE SumSales(_)
\* Series.sum() of Global_Sales; 0 for an empty frame.
SumSales(frame) ==
    IF frame = <<>> THEN 0
    ELSE frame[1].Global_Sales + SumSales(Tail(frame))

\* The keys of a group-by in order of first appearance (sort=False).
AppearanceOrder(frame, col) ==
    LET keys == unique(frame, col)
        first(k) == SetMin({i \in 1..Len(frame) : frame[i][col] = k})
    IN  CHOOSE s \in [1..Cardinality(keys) -> keys] :
            \A i, j \in DOMAIN s : i < j => first(s[i]) < first(s[j])

\* The keys of a group-by, each once, ascending (groupby's sort=True).
GroupKeys(frame, col) ==
    LET keys == unique(frame, col)
    IN  CHOOSE s \in [1..Cardinality(keys) -> keys] :
            \A i, j \in DOMAIN s : i < j => Rank(col, s[i]) < Rank(col, s[j])

GroupFirst(frame, col, k) ==
    frame[SetMin({i \in 1..Len(frame) : frame[i][col] = k})].Global_Sales

\* The sum of Global_Sales over the rows of one group.
GroupSum(frame, col, k) ==
    SumSales(SelectSeq(frame, LAMBDA r : r[col] = k))

\* frame.groupby(col)['Global_Sales'].sum(): a Series, one entry per key.
groupby_sum(frame, col) ==
    LET keys == GroupKeys(frame, col)
    IN  [i \in 1..Len(keys) |->
            [key |-> keys[i], value |-> GroupSum(frame, col, keys[i])]]

Permutations(n) ==
    {p \in [1..n -> 1..n] : \A i, j \in 1..n : p[i] = p[j] => i = j}

sort_values_ascending(series) ==
    {[i \in 1..Len(series) |-> series[p[i]]] : p \in
        {q \in Permutations(Len(series)) :
            \A i, j \in 1..Len(series) :
                i < j => series[q[i]].value <= series[q[j]].value}}

\* Series.sort_values(ascending=False) with the default kind='quicksort',
\* which is not a stable sort: every arrangement with non-increasing values
\* is a possible result, entries of equal value in any order.
sort_values(series) ==
    {[i \in 1..Len(series) |-> series[p[i]]] : p \in
        {q \in Permutations(Len(series)) :
            \A i, j \in 1..Len(series) :
                i < j => series[q[i]].value >= series[q[j]].value}}

\* --------------------------------------------------------------- state

VARIABLES
    raw,                  \* the CSV the URL serves
    cache,                \* st.cache_data's store: pairs <<argument, value>>
    history,              \* what the body of load_data has done so far
    pc,                   \* the script's position in the current run
    load_result,          \* how this run's call of load_data ended
    df,
    selected_genres,
    selected_platforms,
    selected_year_range,
    filtered_df,
    total_sales,
    num_games,
    sales_over_time,
    sales_by_genre,
    sales_by_platform,
    warning               \* st.warning was shown in this run

vars == <<raw, cache, history, pc, load_result, df, selected_genres,
          selected_platforms, selected_year_range, filtered_df, total_sales,
          num_games, sales_over_time, sales_by_genre, sales_by_platform,
          warning>>

process_vars == <<raw, cache, history>>

widget_vars == <<selected_genres, selected_platforms, selected_year_range>>

metric_vars == <<total_sales, num_games>>

chart_vars == <<sales_over_time, sales_by_genre, sales_by_platform, warning>>

\* A run starts with an empty namespace: no script variable is bound.  An
\* unbound frame or Series is written <<>>, an unbound number 0.
FreshNamespace ==
    /\ load_result' = "none"
    /\ df' = <<>>
    /\ selected_genres' = {}
    /\ selected_platforms' = {}
    /\ selected_year_range' = <<0, 0>>
    /\ filtered_df' = <<>>
    /\ total_sales' = 0
    /\ num_games' = 0
    /\ sales_over_time' = <<>>
    /\ sales_by_genre' = <<>>
    /\ sales_by_platform' = <<>>
    /\ warning' = FALSE

Init ==
    /\ raw \in CsvFiles
    /\ cache = {}
    /\ history = "none"
    /\ pc = "load"
    /\ load_result = "none"
    /\ df = <<>>
    /\ selected_genres = {}
    /\ selected_platforms = {}
    /\ selected_year_range = <<0, 0>>
    /\ filtered_df = <<>>
    /\ total_sales = 0
    /\ num_games = 0
    /\ sales_over_time = <<>>
    /\ sales_by_genre = <<>>
    /\ sales_by_platform = <<>>
    /\ warning = FALSE

\* ------------------------------------------- the call of load_data (22-26)

cache_contains(c, url) == \E e \in c : e[1] = url

cache_get(c, url) == (CHOOSE e \in c : e[1] = url)[2]

cache_store_nothing(c, url, value) == c

\* @st.cache_data keeps the value a call returned, keyed by its argument.
cache_store(c, url, value) == c \cup {<<url, value>>}

st_stop_missing == pc' = "sidebar"

\* st.stop(): the run ends here.
st_stop == pc' = "stopped"

\* except Exception: st.error(...); st.stop().  A call that raised stores
\* nothing in the cache.
ExceptionHandler(kind) ==
    /\ load_result' = kind
    /\ history' = IF history = "succeeded" THEN history ELSE "failed"
    /\ st_stop
    /\ UNCHANGED <<raw, cache, df, widget_vars, filtered_df, metric_vars,
                   chart_vars>>

\* The argument is in the cache: the decorator returns a copy of the stored
\* value and the body of load_data does not run.
LoadCached ==
    /\ pc = "load"
    /\ cache_contains(cache, URL)
    /\ df' = cache_get(cache, URL)
    /\ load_result' = "cached"
    /\ pc' = "sidebar"
    /\ UNCHANGED <<process_vars, widget_vars, filtered_df, metric_vars,
                   chart_vars>>

\* The body runs and pd.read_csv raises: the URL cannot be fetched or parsed.
FetchError ==
    /\ pc = "load"
    /\ ~cache_contains(cache, URL)
    /\ ExceptionHandler("fetch_error")

\* The body runs and astype(int) raises ValueError.
ValueError ==
    /\ pc = "load"
    /\ ~cache_contains(cache, URL)
    /\ load_data_raises(raw)
    /\ ExceptionHandler("value_error")

\* The body runs and returns: the value is stored and handed to the script.
LoadComputed ==
    /\ pc = "load"
    /\ ~cache_contains(cache, URL)
    /\ ~load_data_raises(raw)
    /\ cache' = cache_store(cache, URL, load_data(raw))
    /\ df' = load_data(raw)
    /\ history' = "succeeded"
    /\ load_result' = "computed"
    /\ pc' = "sidebar"
    /\ UNCHANGED <<raw, widget_vars, filtered_df, metric_vars, chart_vars>>

\* ------------------------------------------------------ sidebar (29-56)

\* The pairs a range slider over min_value..max_value can return.
SliderRanges(min_year, max_year) ==
    {<<lo, hi>> : lo \in min_year..max_year, hi \in min_year..max_year}
        \cap {r \in Int \X Int : r[1] <= r[2]}

\* st.multiselect raises when a default is not among its options; the
\* exception is not caught and ends the run.
MultiselectError ==
    /\ pc = "sidebar"
    /\ ~(DefaultPlatforms \subseteq unique(df, "Platform"))
    /\ pc' = "crashed"
    /\ UNCHANGED <<process_vars, load_result, df, widget_vars, filtered_df,
                   metric_vars, chart_vars>>

\* The three widgets return the user's current selection: any subset of the
\* options, any range within the data's years.
Sidebar ==
    /\ pc = "sidebar"
    /\ DefaultPlatforms \subseteq unique(df, "Platform")
    /\ selected_genres' \in SUBSET unique(df, "Genre")
    /\ selected_platforms' \in SUBSET unique(df, "Platform")
    /\ selected_year_range' \in
           SliderRanges(SetMin(unique(df, "Year")), SetMax(unique(df, "Year")))
    /\ pc' = "filter"
    /\ UNCHANGED <<process_vars, load_result, df, filtered_df, metric_vars,
                   chart_vars>>

\* ------------------------------------------------- filter and aggregates

FilterInPlace ==
    /\ pc = "filter"
    /\ filtered_df' = BooleanIndex(df, selected_genres, selected_platforms,
                                   selected_year_range)
    /\ df' = filtered_df'
    /\ pc' = "metrics"
    /\ UNCHANGED <<process_vars, load_result, widget_vars, metric_vars,
                   chart_vars>>

\* Lines 60-65.
Filter ==
    /\ pc = "filter"
    /\ filtered_df' = BooleanIndex(df, selected_genres, selected_platforms,
                                   selected_year_range)
    /\ pc' = "metrics"
    /\ UNCHANGED <<process_vars, load_result, df, widget_vars, metric_vars,
                   chart_vars>>

\* Lines 72-77.
Metrics ==
    /\ pc = "metrics"
    /\ total_sales' = SumSales(filtered_df)
    /\ num_games' = Len(filtered_df)
    /\ pc' = "charts"
    /\ UNCHANGED <<process_vars, load_result, df, widget_vars, filtered_df,
                   chart_vars>>

\* Lines 82-111: the three group-bys, taken when filtered_df is not empty.
Charts ==
    /\ pc = "charts"
    /\ filtered_df # <<>>
    /\ sales_over_time' = groupby_sum(filtered_df, "Year")
    /\ sales_by_genre' \in sort_values(groupby_sum(filtered_df, "Genre"))
    /\ sales_by_platform' \in sort_values(groupby_sum(filtered_df, "Platform"))
    /\ pc' = "table"
    /\ UNCHANGED <<process_vars, load_result, df, widget_vars, filtered_df,
                   metric_vars, warning>>

\* Lines 112-113: no group-by is computed for an empty filtered_df.
Warning ==
    /\ pc = "charts"
    /\ filtered_df = <<>>
    /\ warning' = TRUE
    /\ pc' = "table"
    /\ UNCHANGED <<process_vars, load_result, df, widget_vars, filtered_df,
                   metric_vars, sales_over_time, sales_by_genre,
                   sales_by_platform>>

\* Lines 116-117: st.dataframe(filtered_df), the last statement.
Table ==
    /\ pc = "table"
    /\ pc' = "done"
    /\ UNCHANGED <<process_vars, load_result, df, widget_vars, filtered_df,
                   metric_vars, chart_vars>>

\* A user interaction or a page reload runs the script again from the top,
\* in the same process: only the cache survives.
Rerun ==
    /\ pc \in {"done", "stopped", "crashed"}
    /\ pc' = "load"
    /\ FreshNamespace
    /\ UNCHANGED process_vars

Next ==
    \/ LoadCached
    \/ FetchError
    \/ ValueError
    \/ LoadComputed
    \/ MultiselectError
    \/ Sidebar
    \/ Filter
    \/ Metrics
    \/ Charts
    \/ Warning
    \/ Table
    \/ Rerun

Spec == Init /\ [][Next]_vars

\* ------------------------------------------------------------ properties

AfterFilter == pc \in {"metrics", "charts", "table", "done"}

AfterCharts == pc \in {"table", "done"}

Loaded == load_result \in {"computed", "cached"}

Rows(frame) == {frame[i] : i \in 1..Len(frame)}

RECURSIVE SalesOfRows(_)
SalesOfRows(S) ==
    IF S = {} THEN 0
    ELSE LET r == CHOOSE x \in S : TRUE
         IN  r.Global_Sales + SalesOfRows(S \ {r})

RECURSIVE SeriesTotal(_)
SeriesTotal(series) ==
    IF series = <<>> THEN 0
    ELSE series[1].value + SeriesTotal(Tail(series))

\* The three predicates of the FilterCriteria, for one Record.
Satisfies(r) ==
    /\ r.Genre \in selected_genres
    /\ r.Platform \in selected_platforms
    /\ selected_year_range[1] <= r.Year
    /\ r.Year <= selected_year_range[2]

\* Each key of column col present in the view is listed exactly once in the
\* series, with the sum of Global_Sales of its Records, and nothing else is.
ListsEachGroupOnce(series, view, col) ==
    /\ \A j \in 1..Len(series) :
           /\ series[j].key \in unique(view, col)
           /\ series[j].value =
                  SalesOfRows({r \in Rows(view) : r[col] = series[j].key})
    /\ \A k \in unique(view, col) :
           Cardinality({j \in 1..Len(series) : series[j].key = k}) = 1

Descending(series) ==
    \A i, j \in 1..Len(series) :
        i < j => series[i].value >= series[j].value

TiesByAscendingKey(series, col) ==
    \A i, j \in 1..Len(series) :
        (i < j /\ series[i].value = series[j].value)
            => Rank(col, series[i].key) < Rank(col, series[j].key)

\* C1: once the filter has run, a Record of the Dataset is in the filtered
\* view if and only if it satisfies the genre, the platform and the year
\* predicate, and the view holds nothing but Records of the Dataset.
C1_ConjunctiveFilter ==
    AfterFilter =>
        /\ \A r \in Rows(df) : r \in Rows(filtered_df) <=> Satisfies(r)
        /\ Rows(filtered_df) \subseteq Rows(df)

\* A view that keeps a Record and rejects another for its year alone.
C1_Witness ==
    /\ AfterFilter
    /\ filtered_df # <<>>
    /\ \E r \in Rows(df) \ Rows(filtered_df) :
           r.Genre \in selected_genres /\ r.Platform \in selected_platforms
    /\ Len(df) = 2

\* C2: in a run in which load_data raised, the script has stopped: nothing is
\* filtered, aggregated or displayed in that run.
C2_LoadFailureHalts ==
    load_result \in {"fetch_error", "value_error"} =>
        /\ pc = "stopped"
        /\ df = <<>> /\ filtered_df = <<>>
        /\ total_sales = 0 /\ num_games = 0
        /\ sales_over_time = <<>> /\ sales_by_genre = <<>>
        /\ sales_by_platform = <<>> /\ ~warning

C2_Witness ==
    /\ load_result = "fetch_error"
    /\ pc = "stopped"
    /\ ~load_data_raises(raw)
    /\ Len(raw) = 2

\* C3 as stated: once the body of load_data has run for the URL, no later
\* call runs it again.
C3_PipelineAtMostOnce ==
    [][(pc = "load" /\ history # "none") => load_result' = "cached"]_vars

\* C3 as amended: once the body of load_data has returned, every later call
\* is answered from the cache without running the body, the cache is not
\* changed, and the Dataset handed to the script is the one the body
\* returned.
C3_CachedAfterSuccess ==
    [][/\ (pc = "load" /\ history = "succeeded") =>
              /\ load_result' = "cached"
              /\ cache_contains(cache, URL)
              /\ cache' = cache
              /\ df' = cache_get(cache, URL)
       /\ (pc = "load" /\ load_result' = "computed") =>
              /\ history # "succeeded"
              /\ cache_contains(cache', URL)
              /\ df' = cache_get(cache', URL)]_vars

C3_Witness ==
    /\ load_result = "cached"
    /\ pc = "done"
    /\ Len(df) = 2

\* C4: a Record whose year is a malformed numeric string is dropped alone:
\* whenever the source was fetched, load returns without an error and the
\* Dataset holds exactly the Records with a publisher and a numeric year.
C4_MalformedRecordDropped ==
    (load_result # "none" /\ load_result # "fetch_error") =>
        /\ Loaded
        /\ {r.row : r \in Rows(df)} =
               {i - 1 : i \in {k \in 1..Len(raw) :
                   raw[k].Publisher # NA /\ IsNumericCell(raw[k].Year)}}

\* C5: the Dataset load returns holds exactly the Records of the CSV whose
\* publisher and year are both present, in their original order, each with
\* a publisher, an integer year and its other fields unchanged.
C5_CleaningDropRule ==
    Loaded =>
        /\ Len(df) <= Len(raw)
        /\ \A i, j \in 1..Len(df) : i < j => df[i].row < df[j].row
        /\ {r.row : r \in Rows(df)} =
               {i - 1 : i \in {k \in 1..Len(raw) :
                   raw[k].Publisher # NA /\ raw[k].Year # NA}}
        /\ \A r \in Rows(df) :
               /\ r.Publisher # NA
               /\ r.Year \in Int
               /\ r.Genre = raw[r.row + 1].Genre
               /\ r.Platform = raw[r.row + 1].Platform
               /\ r.Publisher = raw[r.row + 1].Publisher
               /\ r.Global_Sales = raw[r.row + 1].Global_Sales

\* A load that dropped a Record and kept another.
C5_Witness ==
    /\ load_result = "computed"
    /\ Len(raw) = 2
    /\ Len(df) = 1
    /\ df[1].row = 1

\* C6: after the aggregates are computed, total_sales is the sum of
\* global_sales over the filtered view, the values of each of the three
\* groupings add up to total_sales, and every Record of the view falls in
\* exactly one group of each grouping.
C6_GroupPartition ==
    AfterCharts =>
        /\ total_sales = SalesOfRows(Rows(filtered_df))
        /\ SeriesTotal(sales_by_genre) = total_sales
        /\ SeriesTotal(sales_by_platform) = total_sales
        /\ SeriesTotal(sales_over_time) = total_sales
        /\ ListsEachGroupOnce(sales_by_genre, filtered_df, "Genre")
        /\ ListsEachGroupOnce(sales_by_platform, filtered_df, "Platform")
        /\ ListsEachGroupOnce(sales_over_time, filtered_df, "Year")

\* Two Records in one genre group and in two year groups.
C6_Witness ==
    /\ pc = "done"
    /\ Len(filtered_df) = 2
    /\ Len(sales_by_genre) = 1
    /\ Len(sales_over_time) = 2
    /\ total_sales = 3

\* C7: with no genre or no platform selected the filtered view is empty and
\* the summary is record_count 0, total_sales 0 and no entry in any of the
\* three groupings.
C7_EmptySelection ==
    (AfterCharts /\ (selected_genres = {} \/ selected_platforms = {})) =>
        /\ filtered_df = <<>>
        /\ num_games = 0
        /\ total_sales = 0
        /\ sales_by_genre = <<>>
        /\ sales_by_platform = <<>>
        /\ sales_over_time = <<>>
        /\ Loaded

C7_Witness ==
    /\ pc = "done"
    /\ selected_genres = {}
    /\ selected_platforms = unique(df, "Platform")
    /\ Len(df) = 2
    /\ warning

\* C8 as stated: sales_by_genre and sales_by_platform list each group once
\* with its sum, by descending sum, groups of equal sum by ascending key.
C8_DescendingTiesByKey ==
    (AfterCharts /\ filtered_df # <<>>) =>
        /\ ListsEachGroupOnce(sales_by_genre, filtered_df, "Genre")
        /\ ListsEachGroupOnce(sales_by_platform, filtered_df, "Platform")
        /\ Descending(sales_by_genre)
        /\ Descending(sales_by_platform)
        /\ TiesByAscendingKey(sales_by_genre, "Genre")
        /\ TiesByAscendingKey(sales_by_platform, "Platform")

\* C8 as amended: sales_by_genre and sales_by_platform list each group once
\* with its sum, by descending (non-increasing) sum.
C8_Descending ==
    (AfterCharts /\ filtered_df # <<>>) =>
        /\ ListsEachGroupOnce(sales_by_genre, filtered_df, "Genre")
        /\ ListsEachGroupOnce(sales_by_platform, filtered_df, "Platform")
        /\ Descending(sales_by_genre)
        /\ Descending(sales_by_platform)

\* The group with the larger sum has the larger key.
C8_Witness ==
    /\ pc = "done"
    /\ Len(sales_by_genre) = 2
    /\ sales_by_genre[1].key = "Sports"
    /\ sales_by_genre[1].value > sales_by_genre[2].value

\* C9: sales_by_year is strictly ascending by year and lists exactly the
\* years occurring in the view, each once with the sum of its Records.
C9_YearSeries ==
    AfterCharts =>
        /\ \A i, j \in 1..Len(sales_over_time) :
               i < j => sales_over_time[i].key < sales_over_time[j].key
        /\ {sales_over_time[j].key : j \in 1..Len(sales_over_time)} =
               unique(filtered_df, "Year")
        /\ ListsEachGroupOnce(sales_over_time, filtered_df, "Year")

\* A view whose first Record is of 2007 and whose second is of 2005: 2006
\* lies between them and is not in the view.
C9_Witness ==
    /\ pc = "done"
    /\ Len(filtered_df) = 2
    /\ filtered_df[1].Year = 2007
    /\ filtered_df[2].Year = 2005
    /\ Len(sales_over_time) = 2

\* C10: the filter and the steps after it leave the Dataset and the cache as
\* load produced them, and the filtered view is the Records of that Dataset
\* that satisfy the current criteria, in the Dataset's order, whatever was
\* selected in earlier runs.
C10_FilterIsPure ==
    [][(pc \in {"filter", "metrics", "charts", "table"}) =>
           /\ df' = df
           /\ cache' = cache
           /\ df' = cache_get(cache', URL)
           /\ (pc = "filter" =>
                  /\ Rows(filtered_df') = {r \in Rows(df) : Satisfies(r)}
                  /\ \A i, j \in 1..Len(filtered_df') :
                         i < j => filtered_df'[i].row < filtered_df'[j].row)]_vars

\* A later run, served from the cache, that filtered two Records down to one.
C10_Witness ==
    /\ load_result = "cached"
    /\ pc = "done"
    /\ Len(df) = 2
    /\ Len(filtered_df) = 1

====
